---- MODULE Spec2Model ----
(***************************************************************************)
(* Mind-Dump: the transcript derivation engine of src/src/App.tsx.         *)
(*                                                                         *)
(* Text is a sequence of characters.  An ASCII character is itself ("5",   *)
(* ",", " ", "a"); any other character is written by its code point, so    *)
(* 大后天 is <<"u5927", "u540E", "u5929">>.  Characters used below:         *)
(*   大 u5927  后 u540E  天 u5929  明 u660E  日 u65E5  今 u4ECA  儿 u513F     *)
(*   下 u4E0B  周 u5468  星 u661F  期 u671F  这 u8FD9  本 u672C  号 u53F7     *)
(*   月 u6708  一 u4E00  二 u4E8C  三 u4E09  四 u56DB  五 u4E94  六 u516D     *)
(*   ， uFF0C  。 u3002  ； uFF1B  、 u3001                                  *)
(*                                                                         *)
(* A Date is [day, hour]: the local day number (days since 1970-01-01) and *)
(* the local time of day, at a resolution of one hour.                     *)
(***************************************************************************)
EXTENDS Integers, Sequences, FiniteSets, TLC

VARIABLES
  text,       \* the string given to the function under way
  parts,      \* the pieces the text was put together from: cues, or spoken items
  sep,        \* which delimiter joins the first two spoken items (0: none)
  clock,      \* the wall clock of the device (local time)
  tzOffset,   \* the zone of the device, in hours east of UTC
  pc,         \* "input", then "resolved" / "stripped", "restripped" /
              \* "derived" / "classified"; "tags" and "app" while the page runs
  scheduled,  \* what getScheduledDateFromText returned
  result,     \* what stripDateWords returned
  result2,    \* what stripDateWords returned for result
  newTasks,   \* what processTranscriptToTasks returned
  reads,      \* the values new Date() gave the call under way, in order
  label,      \* what classify returned
  userTags,       \* App state: the user's labels, a sequence of [id, label]
  tagClock,       \* the value of Date.now() at the latest handleAdd
  pendingTasks,   \* App state: Null, or <<the candidates under review>>
  tasks,          \* App state: the saved tasks, newest batch first
  touched,        \* the positions, in the list under review and in the saved
                  \* list, of the tasks whose tag the user picked
  transcriptRef,  \* transcriptRef.current
  recognitionRef, \* recognitionRef.current: the number of the recognition
                  \* session it holds, 0 for null
  isRecording,    \* App state
  isProcessing,   \* App state
  isPointerDownRef,  \* isPointerDownRef.current
  sessions        \* the recognition sessions started so far, in order:
                  \* [state, derived], state "listening", "failed" (onerror
                  \* has run, onend has not) or "ended", derived the number
                  \* of derivations its onend has run

\* The state of the page around the engine.
appVars ==
  <<userTags, tagClock, pendingTasks, tasks, touched, transcriptRef,
    recognitionRef, isRecording, isProcessing, isPointerDownRef, sessions>>

vars ==
  <<text, parts, sep, clock, tzOffset, pc, scheduled, result, result2, newTasks,
    reads, label, userTags, tagClock, pendingTasks, tasks, touched,
    transcriptRef, recognitionRef, isRecording, isProcessing,
    isPointerDownRef, sessions>>

-----------------------------------------------------------------------------
(* Bounds of the model. *)

\* Number of consecutive years, from 2024 on, the wall clock is drawn from.
YearSpan == 2

\* Largest number of items joined into one utterance.
MaxItems == 3

\* Largest number of clock ticks (hours) between two reads of the clock
\* inside one call.
MaxClockAdvance == 1

\* Longest raw string over the date alphabet given to the sanitizer.
MaxRawLen == 4

\* Largest number of date cues put into one text given to the resolver.
MaxCues == 2

-----------------------------------------------------------------------------
(* Date: ECMAScript's day arithmetic (MakeDay, WeekDay, YearFromTime,      *)
(* MonthFromTime, DateFromTime) on the proleptic Gregorian calendar.       *)

\* Day number of the civil date (y, m, d), m in 1..12, d in 1..31.
DaysFromCivil(y, m, d) ==
  LET yy  == IF m <= 2 THEN y - 1 ELSE y
      era == yy \div 400
      yoe == yy - era * 400
      mp  == IF m > 2 THEN m - 3 ELSE m + 9
      doy == (153 * mp + 2) \div 5 + d - 1
      doe == yoe * 365 + yoe \div 4 - yoe \div 100 + doy
  IN  era * 146097 + doe - 719468

\* The civil date [y, m, d] (m in 1..12) of a day number.
CivilFromDays(z) ==
  LET zz  == z + 719468
      era == zz \div 146097
      doe == zz - era * 146097
      yoe == (doe - doe \div 1460 + doe \div 36524 - doe \div 146096) \div 365
      doy == doe - (365 * yoe + yoe \div 4 - yoe \div 100)
      mp  == (5 * doy + 2) \div 153
      d   == doy - (153 * mp + 2) \div 5 + 1
      m   == IF mp < 10 THEN mp + 3 ELSE mp - 9
  IN  [y |-> IF m <= 2 THEN yoe + era * 400 + 1 ELSE yoe + era * 400,
       m |-> m, d |-> d]

\* Date.prototype.getFullYear / getMonth (0..11) / getDate / getDay (0 = Sunday).
getFullYear(date) == CivilFromDays(date.day).y
getMonth(date)    == CivilFromDays(date.day).m - 1
getDate(date)     == CivilFromDays(date.day).d
getDay(date)      == (date.day + 4) % 7

\* MakeDay(year, month, date): month may exceed 11 and date may exceed the
\* length of the month; both carry over.
MakeDay(year, month, date) ==
  DaysFromCivil(year + month \div 12, (month % 12) + 1, 1) + date - 1

\* new Date(year, monthIndex, day): local midnight of that day.
NewDate(year, month, day) == [day |-> MakeDay(year, month, day), hour |-> 0]

\* d.setDate(n): the day of the month replaced, the time of day kept.
SetDate(date, n) ==
  [day |-> MakeDay(getFullYear(date), getMonth(date), n), hour |-> date.hour]

\* a < b on Dates (comparison of the time values).
DateLess(a, b) == a.day < b.day \/ (a.day = b.day /\ a.hour < b.hour)

\* Date.prototype.toISOString: the UTC fields of the instant, for a zone
\* tz hours east of UTC.
toISOString(date, tz) ==
  LET h   == date.hour - tz
      day == date.day + (IF h < 0 THEN -1 ELSE IF h > 23 THEN 1 ELSE 0)
      c   == CivilFromDays(day)
  IN  [y |-> c.y, m |-> c.m, d |-> c.d, h |-> (h + 24) % 24]

-----------------------------------------------------------------------------
(* Strings and regular expressions.                                        *)
(* A regular expression is a sequence of alternatives (tried in order);    *)
(* an alternative is a sequence of atoms; an atom is a character class     *)
(* repeated min..max times, greedily, with backtracking.                   *)

Whitespace == {" ", "\t"}
Digits == {"0", "1", "2", "3", "4", "5", "6", "7", "8", "9"}

Lit(w) == [k \in 1..Len(w) |-> [cls |-> {w[k]}, min |-> 1, max |-> 1]]
Alt(words) == [k \in 1..Len(words) |-> Lit(words[k])]
Rep(cls, min, max) == <<[cls |-> cls, min |-> min, max |-> max]>>

RECURSIVE RunLen(_, _, _, _)
\* Number of characters of s from position i on that are in cls, at most max.
RunLen(cls, max, s, i) ==
  IF max = 0 \/ i > Len(s) \/ s[i] \notin cls THEN 0
  ELSE 1 + RunLen(cls, max - 1, s, i + 1)

RECURSIVE MatchSeq(_, _, _, _)
RECURSIVE TryCount(_, _, _, _, _)
\* Position after the match of atoms[k..] at position i of s, or -1.
MatchSeq(atoms, k, s, i) ==
  IF k > Len(atoms) THEN i
  ELSE TryCount(atoms, k, s, i, RunLen(atoms[k].cls, atoms[k].max, s, i))

TryCount(atoms, k, s, i, n) ==
  IF n < atoms[k].min THEN -1
  ELSE LET r == MatchSeq(atoms, k + 1, s, i + n)
       IN  IF r # -1 THEN r ELSE TryCount(atoms, k, s, i, n - 1)

RECURSIVE MatchAlt(_, _, _, _)
\* Position after the match of the first alternative from a on that matches
\* at position i, or -1.
MatchAlt(regex, a, s, i) ==
  IF a > Len(regex) THEN -1
  ELSE LET r == MatchSeq(regex[a], 1, s, i)
       IN  IF r # -1 THEN r ELSE MatchAlt(regex, a + 1, s, i)

NoMatch == [index |-> 0, end |-> 0]

RECURSIVE ExecFrom(_, _, _)
ExecFrom(regex, s, i) ==
  IF i > Len(s) THEN NoMatch
  ELSE LET e == MatchAlt(regex, 1, s, i)
       IN  IF e # -1 THEN [index |-> i, end |-> e] ELSE ExecFrom(regex, s, i + 1)

\* String.prototype.match without the g flag: the leftmost match.
Exec(regex, s) == ExecFrom(regex, s, 1)

\* RegExp.prototype.test.
Test(regex, s) == Exec(regex, s) # NoMatch

RECURSIVE ReplaceFrom(_, _, _, _)
ReplaceFrom(regex, s, by, i) ==
  IF i > Len(s) THEN << >>
  ELSE LET e == MatchAlt(regex, 1, s, i)
       IN  IF e > i THEN by \o ReplaceFrom(regex, s, by, e)
           ELSE <<s[i]>> \o ReplaceFrom(regex, s, by, i + 1)

\* String.prototype.replace with a g regular expression.
ReplaceAll(regex, s, by) == ReplaceFrom(regex, s, by, 1)

RECURSIVE TrimStart(_)
TrimStart(s) ==
  IF s # << >> /\ Head(s) \in Whitespace THEN TrimStart(Tail(s)) ELSE s

RECURSIVE TrimEnd(_)
TrimEnd(s) ==
  IF s # << >> /\ s[Len(s)] \in Whitespace
  THEN TrimEnd(SubSeq(s, 1, Len(s) - 1)) ELSE s

\* String.prototype.trim.
Trim(s) == TrimEnd(TrimStart(s))

DigitValue(c) == CHOOSE n \in 0..9 : ToString(n) = c

RECURSIVE parseInt(_)
\* parseInt(digits, 10) of a non-empty string of decimal digits.
parseInt(s) ==
  IF Len(s) = 1 THEN DigitValue(s[1])
  ELSE 10 * parseInt(SubSeq(s, 1, Len(s) - 1)) + DigitValue(s[Len(s)])

-----------------------------------------------------------------------------
(* getScheduledDateFromText: the temporal resolver.  The result is << >>   *)
(* (null) or <<date>>.                                                     *)

Null == << >>

WeekdayChars ==
  {"u4E00", "u4E8C", "u4E09", "u56DB", "u4E94", "u516D", "u5929", "u65E5"}

\* /大后天/
reDaHouTian == Alt(<< <<"u5927", "u540E", "u5929">> >>)
\* /后天/
reHouTian == Alt(<< <<"u540E", "u5929">> >>)
\* /(明天|明日)/
reMingTian == Alt(<< <<"u660E", "u5929">>, <<"u660E", "u65E5">> >>)
\* /(今天|今日|今儿)/
reJinTian ==
  Alt(<< <<"u4ECA", "u5929">>, <<"u4ECA", "u65E5">>, <<"u4ECA", "u513F">> >>)
\* /(\d{1,2})[号日]/
reDay == << Rep(Digits, 1, 2) \o Rep({"u53F7", "u65E5"}, 1, 1) >>
\* The prefixes of the weekday expression, in the order of the alternation
\* 下周|下星期|这周|本周|本星期|周|星期.
WeekPrefixes ==
  << <<"u4E0B", "u5468">>, <<"u4E0B", "u661F", "u671F">>, <<"u8FD9", "u5468">>,
     <<"u672C", "u5468">>, <<"u672C", "u661F", "u671F">>, <<"u5468">>,
     <<"u661F", "u671F">> >>
\* /(下周|下星期|这周|本周|本星期|周|星期)([一二三四五六天日])/
reWeek ==
  [k \in 1..Len(WeekPrefixes) |->
     Lit(WeekPrefixes[k]) \o Rep(WeekdayChars, 1, 1)]
\* /下周|下星期/
reNext == Alt(<< <<"u4E0B", "u5468">>, <<"u4E0B", "u661F", "u671F">> >>)

\* map: 一..六 are 1..6, 日 and 天 are 7.
WeekdayMap(dayChar) ==
  CASE dayChar = "u4E00" -> 1
    [] dayChar = "u4E8C" -> 2
    [] dayChar = "u4E09" -> 3
    [] dayChar = "u56DB" -> 4
    [] dayChar = "u4E94" -> 5
    [] dayChar = "u516D" -> 6
    [] dayChar = "u65E5" -> 7
    [] dayChar = "u5929" -> 7

\* RelativeDay with 后天 tested before 大后天.
RelativeDayHouTianFirst(content, now) ==
  IF Test(reHouTian, content) THEN <<SetDate(now, getDate(now) + 2)>>
  ELSE IF Test(reDaHouTian, content) THEN <<SetDate(now, getDate(now) + 3)>>
  ELSE IF Test(reMingTian, content) THEN <<SetDate(now, getDate(now) + 1)>>
  ELSE IF Test(reJinTian, content) THEN <<now>>
  ELSE Null

\* The relative-day rules, in the order of the source.
RelativeDay(content, now) ==
  IF Test(reDaHouTian, content) THEN <<SetDate(now, getDate(now) + 3)>>
  ELSE IF Test(reHouTian, content) THEN <<SetDate(now, getDate(now) + 2)>>
  ELSE IF Test(reMingTian, content) THEN <<SetDate(now, getDate(now) + 1)>>
  ELSE IF Test(reJinTian, content) THEN <<now>>
  ELSE Null

\* AbsoluteDay without the roll to the next month: always this month's day.
AbsoluteDayThisMonth(content, now) ==
  LET dayMatch == Exec(reDay, content)
      day      == parseInt(SubSeq(content, dayMatch.index, dayMatch.end - 2))
      d        == NewDate(getFullYear(now), getMonth(now), day)
  IN  IF dayMatch = NoMatch THEN Null
      ELSE IF day >= 1 /\ day <= 31 THEN <<d>>
      ELSE Null

\* The absolute-day rule: N号 / N日.
AbsoluteDay(content, now) ==
  LET dayMatch == Exec(reDay, content)
      day      == parseInt(SubSeq(content, dayMatch.index, dayMatch.end - 2))
      d        == NewDate(getFullYear(now), getMonth(now), day)
  IN  IF dayMatch = NoMatch THEN Null
      ELSE IF day >= 1 /\ day <= 31
      THEN IF DateLess(d, NewDate(getFullYear(now), getMonth(now), getDate(now)))
           THEN <<NewDate(getFullYear(now), getMonth(now) + 1, day)>>
           ELSE <<d>>
      ELSE Null

\* WeekdayDiff with today's own weekday pushed a week ahead (diff <= 0).
WeekdayDiffStrict(targetWeekday, currentWeekday, when) ==
  LET diff  == targetWeekday - currentWeekday
      diff2 == IF diff <= 0 THEN diff + 7 ELSE diff
  IN  IF Test(reNext, when) THEN diff2 + 7 ELSE diff2

\* The number of days the weekday rule adds to now.
WeekdayDiff(targetWeekday, currentWeekday, when) ==
  LET diff  == targetWeekday - currentWeekday
      diff2 == IF diff < 0 THEN diff + 7 ELSE diff
  IN  IF Test(reNext, when) THEN diff2 + 7 ELSE diff2

\* The weekday rule: prefix + weekday character.
WeekdayDate(content, now) ==
  LET weekMatch      == Exec(reWeek, content)
      when           == SubSeq(content, weekMatch.index, weekMatch.end - 2)
      dayChar        == content[weekMatch.end - 1]
      targetWeekday  == WeekdayMap(dayChar)
      currentWeekday == IF getDay(now) = 0 THEN 7 ELSE getDay(now)
  IN  IF weekMatch = NoMatch THEN Null
      ELSE <<SetDate(now, getDate(now)
                          + WeekdayDiff(targetWeekday, currentWeekday, when))>>

getScheduledDateFromText(txt, now) ==
  LET content == ReplaceAll(<<Rep(Whitespace, 1, Len(txt))>>, txt, << >>)
      rel     == RelativeDay(content, now)
      abs     == AbsoluteDay(content, now)
  IN  IF rel # Null THEN rel
      ELSE IF abs # Null THEN abs
      ELSE WeekdayDate(content, now)

-----------------------------------------------------------------------------
(* stripDateWords: the sanitizer.                                          *)

\* The patterns, in the order of the source:
\*   /(今天|今日|今儿)/g  /(明天|明日)/g  /后天/g  /大后天/g
\*   /(本周|这周|本星期|下周|下星期)/g  /周[一二三四五六天日]/g
\*   /星期[一二三四五六天日]/g  /\d{1,2}月\d{1,2}[号日]?/g  /\d{1,2}月/g
\*   /\d{1,2}[号日]/g
patterns ==
  << reJinTian,
     reMingTian,
     reHouTian,
     reDaHouTian,
     Alt(<< <<"u672C", "u5468">>, <<"u8FD9", "u5468">>,
            <<"u672C", "u661F", "u671F">>, <<"u4E0B", "u5468">>,
            <<"u4E0B", "u661F", "u671F">> >>),
     << Lit(<<"u5468">>) \o Rep(WeekdayChars, 1, 1) >>,
     << Lit(<<"u661F", "u671F">>) \o Rep(WeekdayChars, 1, 1) >>,
     << Rep(Digits, 1, 2) \o Lit(<<"u6708">>) \o Rep(Digits, 1, 2)
          \o Rep({"u53F7", "u65E5"}, 0, 1) >>,
     << Rep(Digits, 1, 2) \o Lit(<<"u6708">>) >>,
     << Rep(Digits, 1, 2) \o Rep({"u53F7", "u65E5"}, 1, 1) >> >>

RECURSIVE ApplyPatterns(_, _, _)
\* for (const p of patterns) result = result.replace(p, '')
ApplyPatterns(ps, k, s) ==
  IF k > Len(ps) THEN s
  ELSE ApplyPatterns(ps, k + 1, ReplaceAll(ps[k], s, << >>))

stripDateWords(txt) ==
  LET removed   == ApplyPatterns(patterns, 1, txt)
      \* result.replace(/\s{2,}/g, ' ')
      collapsed == ReplaceAll(<<Rep(Whitespace, 2, Len(txt))>>, removed, <<" ">>)
  IN  Trim(collapsed)

-----------------------------------------------------------------------------
(* processTranscriptToTasks: segmenter, classifier and orchestrator.        *)

\* [,，。；;、]
Delimiters == <<",", "uFF0C", "u3002", "uFF1B", ";", "u3001">>
DelimiterSet == {Delimiters[k] : k \in 1..Len(Delimiters)}

RECURSIVE SplitFrom(_, _, _)
\* The pieces of s from position i on, cur being the piece in progress.
SplitFrom(s, i, cur) ==
  IF i > Len(s) THEN <<cur>>
  ELSE IF s[i] \in DelimiterSet THEN <<cur>> \o SplitFrom(s, i + 1, << >>)
  ELSE SplitFrom(s, i + 1, Append(cur, s[i]))

\* Split with the pieces collected last first.
SplitBackwards(s) ==
  LET pieces == SplitFrom(s, 1, << >>)
  IN  [k \in 1..Len(pieces) |-> pieces[Len(pieces) + 1 - k]]

\* text.split(/[,，。；;、]/): every piece, the empty ones included.
Split(s) == SplitFrom(s, 1, << >>)

\* .map((s) => s.trim())
MapTrim(ss) == [k \in 1..Len(ss) |-> Trim(ss[k])]

\* .filter(Boolean): the non-empty strings, in order.
FilterNonEmpty(ss) == SelectSeq(ss, LAMBDA x : x # << >>)

rawItemsOf(txt) == FilterNonEmpty(MapTrim(Split(txt)))

cleanedItemsOf(txt) ==
  LET rawItems == rawItemsOf(txt)
  IN  FilterNonEmpty(MapTrim([k \in 1..Len(rawItems) |-> stripDateWords(rawItems[k])]))

\* The four values of TaskTag.
TagLife  == <<"u751F", "u6D3B", "/", "u8D2D", "u7269">>                \* 生活/购物
TagWork  == <<"u672C", "u4E1A", "u5DE5", "u4F5C">>                     \* 本业工作
TagRamen == <<"u62C9", "u9762", "u5E97", "u521B", "u4E1A">>            \* 拉面店创业
TagWeb   == <<"W", "e", "b", "u5F00", "u53D1", "u5B66", "u4E60">>      \* Web开发学习

\* DEFAULT_TAGS: the labels the page starts with when none are stored.
DEFAULT_TAGS ==
  << [id |-> "life",   label |-> TagLife],
     [id |-> "work",   label |-> TagWork],
     [id |-> "ramen",  label |-> TagRamen],
     [id |-> "webdev", label |-> TagWeb] >>

UpperCase ==
  <<"A", "B", "C", "D", "E", "F", "G", "H", "I", "J", "K", "L", "M",
    "N", "O", "P", "Q", "R", "S", "T", "U", "V", "W", "X", "Y", "Z">>
LowerCase ==
  <<"a", "b", "c", "d", "e", "f", "g", "h", "i", "j", "k", "l", "m",
    "n", "o", "p", "q", "r", "s", "t", "u", "v", "w", "x", "y", "z">>

\* String.prototype.toLowerCase.
toLowerCase(s) ==
  [k \in 1..Len(s) |->
     IF \E j \in 1..26 : UpperCase[j] = s[k]
     THEN LowerCase[CHOOSE j \in 1..26 : UpperCase[j] = s[k]]
     ELSE s[k]]

\* /拉面|汤底|高汤|面条|店铺|选址|租金|装修|门店|开店|创业|财务|成本|利润/
reRamen ==
  Alt(<< <<"u62C9", "u9762">>, <<"u6C64", "u5E95">>, <<"u9AD8", "u6C64">>,
         <<"u9762", "u6761">>, <<"u5E97", "u94FA">>, <<"u9009", "u5740">>,
         <<"u79DF", "u91D1">>, <<"u88C5", "u4FEE">>, <<"u95E8", "u5E97">>,
         <<"u5F00", "u5E97">>, <<"u521B", "u4E1A">>, <<"u8D22", "u52A1">>,
         <<"u6210", "u672C">>, <<"u5229", "u6DA6">> >>)
\* /react|javascript|typescript|前端|css|html|node|web|编程|代码|教程|学习|vite/
reWeb ==
  Alt(<< <<"r", "e", "a", "c", "t">>,
         <<"j", "a", "v", "a", "s", "c", "r", "i", "p", "t">>,
         <<"t", "y", "p", "e", "s", "c", "r", "i", "p", "t">>,
         <<"u524D", "u7AEF">>, <<"c", "s", "s">>, <<"h", "t", "m", "l">>,
         <<"n", "o", "d", "e">>, <<"w", "e", "b">>, <<"u7F16", "u7A0B">>,
         <<"u4EE3", "u7801">>, <<"u6559", "u7A0B">>, <<"u5B66", "u4E60">>,
         <<"v", "i", "t", "e">> >>)
\* /报告|邮件|同事|会议|客户|项目|排期|需求|上线|测试|bug|OKR|周报|工作/
reWork ==
  Alt(<< <<"u62A5", "u544A">>, <<"u90AE", "u4EF6">>, <<"u540C", "u4E8B">>,
         <<"u4F1A", "u8BAE">>, <<"u5BA2", "u6237">>, <<"u9879", "u76EE">>,
         <<"u6392", "u671F">>, <<"u9700", "u6C42">>, <<"u4E0A", "u7EBF">>,
         <<"u6D4B", "u8BD5">>, <<"b", "u", "g">>, <<"O", "K", "R">>,
         <<"u5468", "u62A5">>, <<"u5DE5", "u4F5C">> >>)
\* /买|购买|购物|超市|菜市场|支付|家务|打扫|整理|洗衣|做饭|吃饭|晚餐|午餐|早餐|外卖|预约/
reLife ==
  Alt(<< <<"u4E70">>, <<"u8D2D", "u4E70">>, <<"u8D2D", "u7269">>,
         <<"u8D85", "u5E02">>, <<"u83DC", "u5E02", "u573A">>,
         <<"u652F", "u4ED8">>, <<"u5BB6", "u52A1">>, <<"u6253", "u626B">>,
         <<"u6574", "u7406">>, <<"u6D17", "u8863">>, <<"u505A", "u996D">>,
         <<"u5403", "u996D">>, <<"u665A", "u9910">>, <<"u5348", "u9910">>,
         <<"u65E9", "u9910">>, <<"u5916", "u5356">>, <<"u9884", "u7EA6">> >>)

\* classify without its last line: no label when no keyword occurs.
classifyNoDefault(content) ==
  LET lower == toLowerCase(content)
  IN  IF Test(reRamen, content) THEN TagRamen
      ELSE IF Test(reWeb, lower \o content) THEN TagWeb
      ELSE IF Test(reWork, content) THEN TagWork
      ELSE IF Test(reLife, content) THEN TagLife
      ELSE << >>

\* classify giving the label the user's set now has for the category found,
\* looked up by the identifier of the built-in entry.
classifyUserLabel(content) ==
  LET lower == toLowerCase(content)
      found == IF Test(reRamen, content) THEN 3
               ELSE IF Test(reWeb, lower \o content) THEN 4
               ELSE IF Test(reWork, content) THEN 2
               ELSE IF Test(reLife, content) THEN 1
               ELSE 2
      same  == {j \in 1..Len(userTags) : userTags[j].id = DEFAULT_TAGS[found].id}
  IN  IF same = {} THEN DEFAULT_TAGS[found].label
      ELSE userTags[CHOOSE j \in same : TRUE].label

classify(content) ==
  LET lower == toLowerCase(content)
  IN  IF Test(reRamen, content) THEN TagRamen
      ELSE IF Test(reWeb, lower \o content) THEN TagWeb
      ELSE IF Test(reWork, content) THEN TagWork
      ELSE IF Test(reLife, content) THEN TagLife
      ELSE TagWork

\* TaskId without the index.
TaskIdNoIndex(baseISO, index) == <<baseISO, 0>>

\* The id `${baseISO}-${index}`.
TaskId(baseISO, index) == <<baseISO, index>>

\* FallbackTasks without the fallback: the empty cleanedItems mapped.
FallbackTasksNone(txt, baseISO) == << >>

\* FallbackTasks with the raw utterance as text, not sanitized.
FallbackTasksRaw(txt, baseISO) ==
  << [id        |-> TaskId(baseISO, 0),
      type      |-> "todo",
      text      |-> Trim(txt),
      tag       |-> TagWork,
      completed |-> FALSE,
      createdAt |-> baseISO] >>

\* FallbackTasks without `|| text.trim()`: the sanitized utterance as text
\* even when nothing of it is left.
FallbackTasksSanitizedOnly(txt, baseISO) ==
  << [id        |-> TaskId(baseISO, 0),
      type      |-> "todo",
      text      |-> Trim(stripDateWords(txt)),
      tag       |-> TagWork,
      completed |-> FALSE,
      createdAt |-> baseISO] >>

\* The single task returned when cleanedItems is empty.
FallbackTasks(txt, baseISO) ==
  << [id        |-> TaskId(baseISO, 0),
      type      |-> "todo",
      text      |-> IF Trim(stripDateWords(txt)) # << >>
                    THEN Trim(stripDateWords(txt)) ELSE Trim(txt),
      tag       |-> TagWork,
      completed |-> FALSE,
      createdAt |-> baseISO] >>

\* MappedTasks with every item stamped on its own, an hour after the one
\* before it.
MappedTasksOwnStamp(cleanedItems, baseISO) ==
  [k \in 1..Len(cleanedItems) |->
     [id        |-> TaskId(baseISO, k - 1),
      type      |-> "todo",
      text      |-> cleanedItems[k],
      tag       |-> classify(cleanedItems[k]),
      completed |-> FALSE,
      createdAt |-> [baseISO EXCEPT !.h = (baseISO.h + k - 1) % 24]]]

\* cleanedItems.map((item, index) => ({...})).
MappedTasks(cleanedItems, baseISO) ==
  [k \in 1..Len(cleanedItems) |->
     [id        |-> TaskId(baseISO, k - 1),
      type      |-> "todo",
      text      |-> cleanedItems[k],
      tag       |-> classify(cleanedItems[k]),
      completed |-> FALSE,
      createdAt |-> baseISO]]

\* now is the clock read by processTranscriptToTasks itself, resolverNow the
\* clock read by getScheduledDateFromText, tz the zone of the device.
processTranscriptToTasks(txt, now, resolverNow, tz) ==
  LET sched        == getScheduledDateFromText(txt, resolverNow)
      base         == IF sched # Null THEN sched[1] ELSE now
      baseISO      == toISOString(base, tz)
      cleanedItems == cleanedItemsOf(txt)
  IN  IF Len(cleanedItems) = 0 THEN FallbackTasks(txt, baseISO)
      ELSE MappedTasks(cleanedItems, baseISO)

-----------------------------------------------------------------------------
(* Inputs.                                                                 *)

SeqsUpTo(S, n) == UNION {[1..k -> S] : k \in 1..n}

RECURSIVE Concat(_)
Concat(ss) == IF ss = << >> THEN << >> ELSE Head(ss) \o Concat(Tail(ss))

RECURSIVE JoinFrom(_, _, _)
\* The items from the k-th on, each preceded by a delimiter; the delimiters
\* rotate through Delimiters, starting with the d-th.
JoinFrom(items, k, d) ==
  IF k > Len(items) THEN << >>
  ELSE <<Delimiters[((d - 1) % Len(Delimiters)) + 1]>> \o items[k]
         \o JoinFrom(items, k + 1, d + 1)

Join(items, d) == items[1] \o JoinFrom(items, 2, d)

\* Every hour of a day the sample clocks take.
SampleHours == {0, 9, 23}

\* Every day of the years 2024 .. 2024 + YearSpan - 1, at 09h.
AllClocks ==
  {[day |-> z, hour |-> 9] :
     z \in DaysFromCivil(2024, 1, 1) .. DaysFromCivil(2024 + YearSpan, 1, 1) - 1}

\* 2024-12-23 (a Monday) .. 2025-01-05 (a Sunday), and 2024-02-27 .. 2024-02-29.
SampleClocks ==
  {[day |-> z, hour |-> h] :
     z \in (DaysFromCivil(2024, 12, 23) .. DaysFromCivil(2025, 1, 5))
             \cup (DaysFromCivil(2024, 2, 27) .. DaysFromCivil(2024, 2, 29)),
     h \in SampleHours}

\* 2024-02-28 09h, 2024-12-31 23h, 2025-01-30 00h, 2025-04-20 09h.
FewClocks ==
  { [day |-> DaysFromCivil(2024, 2, 28), hour |-> 9],
    [day |-> DaysFromCivil(2024, 12, 31), hour |-> 23],
    [day |-> DaysFromCivil(2025, 1, 30), hour |-> 0],
    [day |-> DaysFromCivil(2025, 4, 20), hour |-> 9] }

TimezoneOffsets == {-5, 8}

Filler == <<"u4E70", "u83DC">>                                  \* 买菜

\* N号 / N日 as a string.
DayPhrase(n, c) ==
  (IF n < 10 THEN <<ToString(n)>> ELSE <<ToString(n \div 10), ToString(n % 10)>>)
    \o <<c>>

\* prefix + weekday character, for every prefix and every character.
WeekPhrases ==
  {WeekPrefixes[k] \o <<c>> : k \in 1..Len(WeekPrefixes), c \in WeekdayChars}

\* The relative-day cues by rule: 大后天 (also written 大 后天); 后天;
\* 明天, 明日; 今天, 今日, 今儿.
RelativeCues ==
  << { <<"u5927", "u540E", "u5929">>, <<"u5927", " ", "u540E", "u5929">> },
     { <<"u540E", "u5929">> },
     { <<"u660E", "u5929">>, <<"u660E", "u65E5">> },
     { <<"u4ECA", "u5929">>, <<"u4ECA", "u65E5">>, <<"u4ECA", "u513F">> } >>

\* 5号, 31日, 0号
AbsoluteCues == {DayPhrase(5, "u53F7"), DayPhrase(31, "u65E5"), DayPhrase(0, "u53F7")}

\* 星期五, 下星期日, 本周一
WeekCues ==
  { <<"u661F", "u671F", "u4E94">>, <<"u4E0B", "u661F", "u671F", "u65E5">>,
    <<"u672C", "u5468", "u4E00">> }

CueTokens ==
  UNION {RelativeCues[k] : k \in 1..Len(RelativeCues)}
    \cup AbsoluteCues \cup WeekCues \cup {Filler}

\* The strings of at most MaxRawLen characters over 今 天 周 三 1 号 and the
\* space.
RawAlphabet == {"u4ECA", "u5929", "u5468", "u4E09", "1", "u53F7", " "}
RawStrings == {<< >>} \cup SeqsUpTo(RawAlphabet, MaxRawLen)

\* Every phrase the resolver recognizes: the relative days, N号 and N日 for
\* N in 1..31, prefix + weekday character.
ResolverPhrases ==
  UNION {RelativeCues[k] : k \in 1..Len(RelativeCues)}
    \cup {DayPhrase(n, c) : n \in 1..31, c \in {"u53F7", "u65E5"}}
    \cup WeekPhrases

\* Texts free of temporal vocabulary: the empty text, 买菜, " 开会 ", 写周报.
CleanTexts ==
  { << >>, Filler, <<" ", "u5F00", "u4F1A", " ">>, <<"u5199", "u5468", "u62A5">> }

\* The items an utterance is put together from: the empty item, 买菜, 写周报,
\* 预约牙医, 明天, " 5号 开会".
ItemTexts ==
  { << >>, Filler, <<"u5199", "u5468", "u62A5">>,
    <<"u9884", "u7EA6", "u7259", "u533B">>, <<"u660E", "u5929">>,
    <<" ", "5", "u53F7", " ", "u5F00", "u4F1A">> }

\* The page as it is constructed (useState, useRef), nothing stored.
AppIdle ==
  /\ userTags = DEFAULT_TAGS
  /\ tagClock = 0
  /\ pendingTasks = Null
  /\ tasks = << >>
  /\ touched = [pending |-> {}, saved |-> {}]
  /\ transcriptRef = << >>
  /\ recognitionRef = 0
  /\ isRecording = FALSE
  /\ isProcessing = FALSE
  /\ isPointerDownRef = FALSE
  /\ sessions = << >>

\* No function has returned anything yet.
NothingReturned ==
  /\ scheduled = Null
  /\ result = << >>
  /\ result2 = << >>
  /\ newTasks = << >>
  /\ reads = << >>
  /\ label = << >>

Idle ==
  /\ pc = "input"
  /\ NothingReturned
  /\ AppIdle

-----------------------------------------------------------------------------
(* The resolver on its own.                                                *)

InitResolve ==
  /\ Idle
  /\ sep = 0
  /\ tzOffset = 8
  /\ \/ parts \in SeqsUpTo(CueTokens, MaxCues) /\ clock \in FewClocks
     \/ /\ parts \in {<<DayPhrase(n, c)>> : n \in 0..32, c \in {"u53F7", "u65E5"}}
        /\ clock \in AllClocks
     \/ /\ parts \in {<<w>> : w \in WeekPhrases}
                       \cup {<<Filler, w>> : w \in WeekPhrases}
                       \cup {<<w, Filler>> : w \in WeekPhrases}
        /\ clock \in SampleClocks
  /\ text = Concat(parts)

\* getScheduledDateFromText(text), reading the clock once.
Resolve ==
  /\ pc = "input"
  /\ scheduled' = getScheduledDateFromText(text, clock)
  /\ pc' = "resolved"
  /\ reads' = <<clock>>
  /\ UNCHANGED <<text, parts, sep, clock, tzOffset, result, result2, newTasks, label>>
  /\ UNCHANGED appVars

NextResolve == Resolve

SpecResolve == InitResolve /\ [][NextResolve]_vars

-----------------------------------------------------------------------------
(* The sanitizer on its own.                                               *)

InitStrip ==
  /\ Idle
  /\ sep = 0
  /\ tzOffset = 8
  /\ clock \in FewClocks
  /\ \/ parts \in {<<x>> : x \in RawStrings}
     \/ parts \in {<<p, x>> : p \in ResolverPhrases, x \in CleanTexts}
  /\ text = Concat(parts)

\* stripDateWords(text)
Strip ==
  /\ pc = "input"
  /\ result' = stripDateWords(text)
  /\ pc' = "stripped"
  /\ UNCHANGED <<text, parts, sep, clock, tzOffset, scheduled, result2, newTasks>>
  /\ UNCHANGED <<reads, label>>
  /\ UNCHANGED appVars

\* stripDateWords(stripDateWords(text))
StripAgain ==
  /\ pc = "stripped"
  /\ result2' = stripDateWords(result)
  /\ pc' = "restripped"
  /\ UNCHANGED <<text, parts, sep, clock, tzOffset, scheduled, result, newTasks>>
  /\ UNCHANGED <<reads, label>>
  /\ UNCHANGED appVars

NextStrip == Strip \/ StripAgain

SpecStrip == InitStrip /\ [][NextStrip]_vars

-----------------------------------------------------------------------------
(* The classifier on its own.                                              *)

\* Largest number of words put into one text given to the classifier.
MaxWords == 3

\* Words for the classifier: one of each keyword family, one without any
\* keyword, and one without any keyword that begins with the second
\* character of a keyword and ends with its first.
ClassifyWords ==
  { <<"u62C9", "u9762">>,                    \* 拉面  (venture)
    <<"R", "e", "a", "c", "t">>,             \* React (tech, in mixed case)
    <<"u5468", "u62A5">>,                    \* 周报  (job)
    <<"u4E70">>,                             \* 买    (life)
    <<"u60F3", "u4E00", "u60F3">>,           \* 想一想
    <<"u7AEF", "u5348", "u8282", "u524D">> } \* 端午节前

InitClassify ==
  /\ Idle
  /\ sep = 0
  /\ tzOffset = 8
  /\ clock = [day |-> DaysFromCivil(2024, 12, 31), hour |-> 23]
  /\ parts \in SeqsUpTo(ClassifyWords, MaxWords)
  /\ text = Concat(parts)

\* classify(content)
Classify ==
  /\ pc = "input"
  /\ label' = classify(text)
  /\ pc' = "classified"
  /\ UNCHANGED <<text, parts, sep, clock, tzOffset, scheduled, result, result2,
                 newTasks, reads>>
  /\ UNCHANGED appVars

NextClassify == Classify

SpecClassify == InitClassify /\ [][NextClassify]_vars

-----------------------------------------------------------------------------
(* processTranscriptToTasks.                                               *)

\* The clock k hours later.
Advance(date, k) ==
  [day |-> date.day + (date.hour + k) \div 24, hour |-> (date.hour + k) % 24]

Init ==
  /\ Idle
  /\ \/ /\ parts \in SeqsUpTo(ItemTexts, MaxItems)
        /\ sep \in {1, 3, 5}
        /\ clock = [day |-> DaysFromCivil(2024, 12, 31), hour |-> 23]
        /\ tzOffset = 8
     \/ /\ parts \in SeqsUpTo(ItemTexts, 2)
        /\ sep \in 1..Len(Delimiters)
        /\ clock \in FewClocks
        /\ tzOffset \in TimezoneOffsets
  /\ text = Join(parts, sep)

\* processTranscriptToTasks(text): it reads the clock, then
\* getScheduledDateFromText reads the clock again.
Derive ==
  /\ pc = "input"
  /\ \E adv \in 0..MaxClockAdvance :
       LET resolverNow == Advance(clock, adv)
       IN  /\ newTasks' = processTranscriptToTasks(text, clock, resolverNow, tzOffset)
           /\ clock' = resolverNow
           /\ reads' = <<clock, resolverNow>>
  /\ pc' = "derived"
  /\ UNCHANGED <<text, parts, sep, tzOffset, scheduled, result, result2, label>>
  /\ UNCHANGED appVars

Next == Derive

Spec == Init /\ [][Next]_vars

-----------------------------------------------------------------------------
(* The label set of the page: TagEditor and the label chips.               *)

\* The capacity of the label set.
MaxTags == 12

\* Largest number of labels handleAdd appends in one run of the label set
\* alone.
MaxAdds == 9

\* Largest number of labels handleAdd appends while tasks are under review.
MaxAppAdds == 1

\* Some entry of tags has this label.
HasLabel(tags, l) == \E k \in 1..Len(tags) : tags[k].label = l

\* handleAdd without the capacity check.
handleAddNoCap(tags, input, now) ==
  LET l == Trim(input)
  IN  IF l = << >> THEN tags
      ELSE IF HasLabel(tags, l) THEN tags
      ELSE Append(tags, [id |-> "custom-" \o ToString(now), label |-> l])

\* TagEditor.handleAdd with the text typed into the input and the value of
\* Date.now(): the label set it leaves.
handleAdd(tags, input, now) ==
  LET l == Trim(input)
  IN  IF l = << >> THEN tags
      ELSE IF HasLabel(tags, l) THEN tags
      ELSE IF Len(tags) >= MaxTags THEN tags
      ELSE Append(tags, [id |-> "custom-" \o ToString(now), label |-> l])

\* The onClick of the pencil of the chip of entry k, with what window.prompt
\* returned (Null: cancelled): the label set it leaves.
renameTag(tags, k, next) ==
  LET trimmed == Trim(next)
  IN  IF trimmed = << >> \/ trimmed = tags[k].label THEN tags
      ELSE [j \in 1..Len(tags) |->
              IF tags[j].id = tags[k].id
              THEN [tags[j] EXCEPT !.label = trimmed] ELSE tags[j]]

\* The onClick of the cross of the chip of entry k: the label set it leaves.
deleteTag(tags, k) ==
  IF Len(tags) <= 1 THEN tags
  ELSE SelectSeq(tags, LAMBDA t : t.id # tags[k].id)

\* The label the n-th handleAdd types.
CustomLabel(n) ==
  <<"t", "a", "g",
    <<"a", "b", "c", "d", "e", "f", "g", "h", "i", "j", "k", "l", "m">>[n]>>

\* 杂事, typed with blanks around it.
Chores == <<" ", "u6742", "u4E8B", " ">>

\* What the user types into the input of TagEditor: a new label with blanks
\* around it, the label of the first chip, or blanks only.
AddInputs ==
  { <<" ">> \o CustomLabel(tagClock + 1) \o <<" ">>, userTags[1].label, <<" ">> }

\* What window.prompt returns: a new label with blanks around it or nothing
\* (cancelled) and, in the run of the label set alone, the label of the last
\* chip.
RenameInputs ==
  IF pc = "tags" THEN { Chores, userTags[Len(userTags)].label, Null }
  ELSE { Chores, Null }

\* The chip the user renames: the first.
RenameChips == {1}

\* The chips the user deletes: the last and, in the run of the label set
\* alone, the first.
DeleteChips == IF pc = "tags" THEN {1, Len(userTags)} ELSE {Len(userTags)}

\* The number of labels handleAdd may append in the run under way.
AddLimit == IF pc = "tags" THEN MaxAdds ELSE MaxAppAdds

engineVars ==
  <<text, parts, sep, clock, tzOffset, pc, scheduled, result, result2,
    newTasks, reads, label>>

reviewVars ==
  <<pendingTasks, tasks, touched, transcriptRef, recognitionRef, isRecording,
    isProcessing, isPointerDownRef, sessions>>

\* TagEditor.handleAdd
HandleAdd ==
  /\ pc \in {"tags", "app"}
  /\ tagClock < AddLimit
  /\ \E input \in AddInputs :
       /\ userTags' = handleAdd(userTags, input, tagClock + 1)
       /\ tagClock' = IF userTags' # userTags THEN tagClock + 1 ELSE tagClock
  /\ UNCHANGED engineVars
  /\ UNCHANGED reviewVars

\* The pencil of a chip.
RenameTag ==
  /\ pc \in {"tags", "app"}
  /\ \E k \in RenameChips, next \in RenameInputs :
       userTags' = renameTag(userTags, k, next)
  /\ UNCHANGED tagClock
  /\ UNCHANGED engineVars
  /\ UNCHANGED reviewVars

\* The cross of a chip.
DeleteTag ==
  /\ pc \in {"tags", "app"}
  /\ \E k \in DeleteChips : userTags' = deleteTag(userTags, k)
  /\ UNCHANGED tagClock
  /\ UNCHANGED engineVars
  /\ UNCHANGED reviewVars

InitTags ==
  /\ pc = "tags"
  /\ NothingReturned
  /\ AppIdle
  /\ parts = << >>
  /\ text = << >>
  /\ sep = 0
  /\ tzOffset = 8
  /\ clock = [day |-> DaysFromCivil(2024, 12, 31), hour |-> 23]

NextTags == HandleAdd \/ RenameTag \/ DeleteTag

SpecTags == InitTags /\ [][NextTags]_vars

-----------------------------------------------------------------------------
(* The page: recording, the candidates under review, the saved tasks.      *)

\* Largest number of saved tasks: recording starts only while fewer are
\* saved, and a batch is confirmed only when it fits.
MaxSaved == 2

\* Recording starts only while the page has been open for fewer hours than
\* this.
MaxHoursOpen == 2

\* What the recognizer hears: two items, one item with a day of the month,
\* blanks only.
Utterances ==
  { <<"u4E70", "u83DC", "uFF0C", "u5F00", "u4F1A">>,    \* 买菜，开会
    <<"5", "u53F7", "u5F00", "u4F1A">>,                 \* 5号开会
    <<" ">> }

\* t.tag ?? '本业工作'
TagOrDefault(t) == IF "tag" \in DOMAIN t THEN t.tag ELSE TagWork

\* WithType that only writes the type: an idea keeps tag and completed.
WithTypeOnly(t, type) ==
  IF "tag" \in DOMAIN t
  THEN [id |-> t.id, type |-> type, text |-> t.text, tag |-> t.tag,
        completed |-> t.completed, createdAt |-> t.createdAt]
  ELSE [id |-> t.id, type |-> type, text |-> t.text, createdAt |-> t.createdAt]

\* What handleSetPendingType makes of the task it is called for.  A field
\* set to undefined is a field the record does not have.
WithType(t, type) ==
  IF type = "todo"
  THEN [id |-> t.id, type |-> "todo", text |-> t.text, tag |-> TagOrDefault(t),
        completed |-> FALSE, createdAt |-> t.createdAt]
  ELSE [id |-> t.id, type |-> "idea", text |-> t.text, createdAt |-> t.createdAt]

\* handleSetPendingType(taskId, type) on the list under review.
handleSetPendingType(prev, taskId, type) ==
  [k \in 1..Len(prev) |->
     IF prev[k].id # taskId THEN prev[k] ELSE WithType(prev[k], type)]

\* { ...t, tag: tagLabel }
WithTag(t, tagLabel) ==
  IF "completed" \in DOMAIN t
  THEN [id |-> t.id, type |-> t.type, text |-> t.text, tag |-> tagLabel,
        completed |-> t.completed, createdAt |-> t.createdAt]
  ELSE [id |-> t.id, type |-> t.type, text |-> t.text, tag |-> tagLabel,
        createdAt |-> t.createdAt]

\* handleChangePendingTag(taskId, tagLabel) on the list under review.
handleChangePendingTag(prev, taskId, tagLabel) ==
  [k \in 1..Len(prev) |->
     IF prev[k].id = taskId THEN WithTag(prev[k], tagLabel) ELSE prev[k]]

\* The task handleConfirmPendingTasks saves for a candidate.
toSave(t) ==
  IF t.type = "idea"
  THEN [id |-> t.id, type |-> "idea", text |-> t.text, createdAt |-> t.createdAt]
  ELSE [id |-> t.id, type |-> "todo", text |-> t.text, tag |-> TagOrDefault(t),
        completed |-> FALSE, createdAt |-> t.createdAt]

\* The clock when the page is opened.
PageOpened == [day |-> DaysFromCivil(2024, 12, 31), hour |-> 23]

\* The hours the clock has gone since the page was opened.
HoursOpen(date) == (date.day - PageOpened.day) * 24 + date.hour - PageOpened.hour

\* toggleTask(id) on the saved list.
toggleTask(prev, id) ==
  [k \in 1..Len(prev) |->
     IF prev[k].id = id /\ prev[k].type = "todo"
     THEN [prev[k] EXCEPT !.completed = ~prev[k].completed]
     ELSE prev[k]]

\* The list under review (empty when there is none).
Pending == IF pendingTasks = Null THEN << >> ELSE pendingTasks[1]

\* The review sheet is on the screen.
ReviewOpen == Len(Pending) > 0

\* The page is running.
OnPage == pc \in {"app", "rec"}

\* startRecording, the recognizer available and starting.  The clock has
\* gone on since the call before: no two recordings start at one instant.
StartRecording ==
  IF isRecording \/ isProcessing \/ ReviewOpen
  THEN UNCHANGED <<clock, sessions, recognitionRef, transcriptRef, isRecording>>
  ELSE /\ clock' = Advance(clock, 1)
       /\ sessions' = Append(sessions, [state |-> "listening", derived |-> 0])
       /\ recognitionRef' = Len(sessions) + 1
       /\ transcriptRef' = << >>
       /\ isRecording' = TRUE

\* stopRecording: recognition.stop() asks the session to end, its onend
\* comes later.
StopRecording ==
  IF isRecording /\ recognitionRef = 0
  THEN isRecording' = FALSE
  ELSE UNCHANGED isRecording

\* handlePointerDown, the left button or a touch.
HandlePointerDown ==
  /\ OnPage
  /\ Len(tasks) < MaxSaved
  /\ HoursOpen(clock) < MaxHoursOpen
  /\ isPointerDownRef' = TRUE
  /\ StartRecording
  /\ UNCHANGED <<userTags, tagClock, pendingTasks, tasks, touched, isProcessing>>
  /\ UNCHANGED <<text, parts, sep, tzOffset, pc, scheduled, result, result2,
                 newTasks, reads, label>>

\* handlePointerUp (also bound to pointer cancel and pointer leave).
HandlePointerUp ==
  /\ OnPage
  /\ isPointerDownRef
  /\ isPointerDownRef' = FALSE
  /\ StopRecording
  /\ UNCHANGED <<userTags, tagClock, pendingTasks, tasks, touched,
                 transcriptRef, recognitionRef, isProcessing, sessions>>
  /\ UNCHANGED engineVars

\* recognition.onresult of a session: the final transcript so far replaces
\* the stored one.
OnResult ==
  /\ OnPage
  /\ \E s \in 1..Len(sessions) : sessions[s].state = "listening"
  /\ transcriptRef' \in Utterances
  /\ UNCHANGED <<userTags, tagClock, pendingTasks, tasks, touched,
                 recognitionRef, isRecording, isProcessing, isPointerDownRef,
                 sessions>>
  /\ UNCHANGED engineVars

\* recognition.onerror of a session; its onend is still to come.
OnError ==
  /\ OnPage
  /\ \E s \in 1..Len(sessions) :
       /\ sessions[s].state = "listening"
       /\ sessions' = [sessions EXCEPT ![s].state = "failed"]
  /\ isRecording' = FALSE
  /\ isProcessing' = FALSE
  /\ recognitionRef' = 0
  /\ UNCHANGED <<userTags, tagClock, pendingTasks, tasks, touched,
                 transcriptRef, isPointerDownRef>>
  /\ UNCHANGED engineVars

\* recognition.onend of a session.
OnEnd ==
  /\ OnPage
  /\ \E s \in 1..Len(sessions) :
       /\ sessions[s].state \in {"listening", "failed"}
       /\ LET finalText == Trim(transcriptRef)
          IN  /\ recognitionRef' = 0
              /\ isProcessing' = FALSE
              /\ isRecording' = FALSE
              /\ IF finalText = << >>
                 THEN /\ sessions' = [sessions EXCEPT ![s].state = "ended"]
                      /\ UNCHANGED <<pendingTasks, touched, transcriptRef,
                                     clock, reads>>
                 ELSE \E adv \in 0..MaxClockAdvance :
                        LET resolverNow == Advance(clock, adv)
                        IN  /\ HoursOpen(resolverNow) <= MaxHoursOpen
                            /\ pendingTasks' =
                                 <<processTranscriptToTasks(finalText, clock,
                                                            resolverNow, tzOffset)>>
                            /\ sessions' =
                                 [sessions EXCEPT
                                    ![s] = [state   |-> "ended",
                                            derived |-> @.derived + 1]]
                            /\ clock' = resolverNow
                            /\ reads' = <<clock, resolverNow>>
                            /\ touched' = [touched EXCEPT !.pending = {}]
                            /\ transcriptRef' = << >>
  /\ UNCHANGED <<userTags, tagClock, tasks, isPointerDownRef>>
  /\ UNCHANGED <<text, parts, sep, tzOffset, pc, scheduled, result, result2,
                 newTasks, label>>

\* A click on 待办 or 点子 of a candidate on the review sheet.
SetPendingType ==
  /\ OnPage
  /\ ReviewOpen
  /\ \E k \in 1..Len(Pending), type \in {"todo", "idea"} :
       pendingTasks' = <<handleSetPendingType(Pending, Pending[k].id, type)>>
  /\ UNCHANGED <<userTags, tagClock, tasks, touched, transcriptRef,
                 recognitionRef, isRecording, isProcessing>>
  /\ UNCHANGED <<isPointerDownRef, sessions>>
  /\ UNCHANGED engineVars

\* The label the user clicks on the review sheet: the first.
PickChips == {1}

\* A click on a label of a candidate on the review sheet: the labels are
\* shown for the candidates of type todo only.
ChangePendingTag ==
  /\ OnPage
  /\ ReviewOpen
  /\ \E k \in 1..Len(Pending), j \in PickChips :
       /\ Pending[k].type = "todo"
       /\ pendingTasks' =
            <<handleChangePendingTag(Pending, Pending[k].id, userTags[j].label)>>
       /\ touched' =
            [touched EXCEPT !.pending =
               @ \cup {i \in 1..Len(Pending) : Pending[i].id = Pending[k].id}]
  /\ UNCHANGED <<userTags, tagClock, tasks, transcriptRef, recognitionRef,
                 isRecording, isProcessing>>
  /\ UNCHANGED <<isPointerDownRef, sessions>>
  /\ UNCHANGED engineVars

\* handleConfirmPendingTasks
ConfirmPending ==
  /\ OnPage
  /\ ReviewOpen
  /\ Len(tasks) + Len(Pending) <= MaxSaved
  /\ tasks' = [k \in 1..Len(Pending) |-> toSave(Pending[k])] \o tasks
  /\ pendingTasks' = Null
  /\ touched' = [pending |-> {},
                 saved   |-> touched.pending
                               \cup {k + Len(Pending) : k \in touched.saved}]
  /\ UNCHANGED <<userTags, tagClock, transcriptRef, recognitionRef,
                 isRecording, isProcessing>>
  /\ UNCHANGED <<isPointerDownRef, sessions>>
  /\ UNCHANGED engineVars

\* handleDiscardPendingTasks
DiscardPending ==
  /\ OnPage
  /\ ReviewOpen
  /\ pendingTasks' = Null
  /\ touched' = [touched EXCEPT !.pending = {}]
  /\ UNCHANGED <<userTags, tagClock, tasks, transcriptRef, recognitionRef,
                 isRecording, isProcessing>>
  /\ UNCHANGED <<isPointerDownRef, sessions>>
  /\ UNCHANGED engineVars

InitApp ==
  /\ pc = "app"
  /\ NothingReturned
  /\ AppIdle
  /\ parts = << >>
  /\ text = << >>
  /\ sep = 0
  /\ tzOffset = 8
  /\ clock = PageOpened

NextApp ==
  \/ HandlePointerDown
  \/ OnResult
  \/ OnEnd
  \/ SetPendingType
  \/ ChangePendingTag
  \/ ConfirmPending
  \/ DiscardPending
  \/ HandleAdd
  \/ RenameTag
  \/ DeleteTag

SpecApp == InitApp /\ [][NextApp]_vars

\* Recording alone: the button, the callbacks of the recognition sessions,
\* and the two buttons that settle the review sheet.
InitRecord ==
  /\ pc = "rec"
  /\ NothingReturned
  /\ AppIdle
  /\ parts = << >>
  /\ text = << >>
  /\ sep = 0
  /\ tzOffset = 8
  /\ clock = PageOpened

NextRecord ==
  \/ HandlePointerDown
  \/ HandlePointerUp
  \/ OnResult
  \/ OnError
  \/ OnEnd
  \/ ConfirmPending
  \/ DiscardPending

SpecRecord == InitRecord /\ [][NextRecord]_vars

-----------------------------------------------------------------------------
(* Properties.                                                             *)

\* The texts of the returned tasks, in order.
TaskTexts == [k \in 1..Len(newTasks) |-> newTasks[k].text]

\* The spoken items as the utterance gives them: trimmed, the blank ones
\* left out, in spoken order.
SpokenItems ==
  SelectSeq([k \in 1..Len(parts) |-> Trim(parts[k])], LAMBDA x : x # << >>)

\* The spoken items sanitized, the ones sanitized away left out, in spoken
\* order.
SpokenClean ==
  SelectSeq([k \in 1..Len(SpokenItems) |-> stripDateWords(SpokenItems[k])],
            LAMBDA x : x # << >>)

\* C1: for every utterance and every clock, what processTranscriptToTasks
\* returns holds at least one candidate.  (Derive is the whole call: were the
\* function undefined on some input, its evaluation would fail there.)
C1_DeriveNonEmpty == pc = "derived" => Len(newTasks) >= 1

\* An utterance made of delimiters only has been derived into one candidate.
C1_Witness ==
  /\ pc = "derived"
  /\ Len(parts) >= 2
  /\ \A k \in 1..Len(parts) : parts[k] = << >>
  /\ Len(newTasks) = 1

\* Some part of the text is one of the cues of S.
HasCue(S) == \E k \in 1..Len(parts) : parts[k] \in S

\* The first part of the text that is one of the cues of S.
FirstCue(S) ==
  parts[CHOOSE k \in 1..Len(parts) :
          parts[k] \in S /\ \A j \in 1..(k - 1) : parts[j] \notin S]

\* The clock n days later, at the same time of day.
DaysLater(n) == <<[day |-> clock.day + n, hour |-> clock.hour]>>

\* C2: only the first matching rule is honoured: 大后天 gives now + 3 days
\* whatever else the text holds, then 后天 + 2, 明天/明日 + 1, 今天/今日/今儿
\* + 0; and with no relative cue a day of the month in 1..31 gives what it
\* gives alone, whatever weekday cue the text also holds.
C2_FirstRuleWins ==
  pc = "resolved" =>
    /\ HasCue(RelativeCues[1]) => scheduled = DaysLater(3)
    /\ ~HasCue(RelativeCues[1]) /\ HasCue(RelativeCues[2])
         => scheduled = DaysLater(2)
    /\ ~HasCue(RelativeCues[1]) /\ ~HasCue(RelativeCues[2])
         /\ HasCue(RelativeCues[3]) => scheduled = DaysLater(1)
    /\ ~HasCue(RelativeCues[1]) /\ ~HasCue(RelativeCues[2])
         /\ ~HasCue(RelativeCues[3]) /\ HasCue(RelativeCues[4])
         => scheduled = DaysLater(0)
    /\ (\A r \in 1..Len(RelativeCues) : ~HasCue(RelativeCues[r]))
         /\ HasCue(AbsoluteCues)
         /\ FirstCue(AbsoluteCues) # DayPhrase(0, "u53F7")
         => scheduled = getScheduledDateFromText(FirstCue(AbsoluteCues), clock)

\* 星期五 followed by 大后天 has been resolved to three days from now.
C2_Witness ==
  /\ pc = "resolved"
  /\ parts = << <<"u661F", "u671F", "u4E94">>, <<"u5927", "u540E", "u5929">> >>
  /\ scheduled = DaysLater(3)

\* Today's weekday, Monday = 1 .. Sunday = 7.
Weekday(date) == ((date.day + 3) % 7) + 1

\* The text is one weekday phrase, alone or next to 买菜.
OnlyCue(w) == parts \in {<<w>>, <<Filler, w>>, <<w, Filler>>}

\* C3: 下周X / 下星期X gives the day with weekday X of the Monday-to-Sunday
\* week right after the week of now.
C3_NextWeek ==
  pc = "resolved" =>
    \A k \in 1..2 : \A c \in WeekdayChars :
      OnlyCue(WeekPrefixes[k] \o <<c>>) =>
        /\ scheduled # Null
        /\ Weekday(scheduled[1]) = WeekdayMap(c)
        /\ scheduled[1].day - (clock.day - (Weekday(clock) - 1)) \in 7..13

\* C4: with a prefix other than 下周 / 下星期, the weekday rule gives now
\* plus ((target - current) mod 7) days, an offset in 0..6, at the time of
\* day of now.
C4_ThisWeek ==
  pc = "resolved" =>
    \A k \in 3..Len(WeekPrefixes) : \A c \in WeekdayChars :
      OnlyCue(WeekPrefixes[k] \o <<c>>) =>
        /\ scheduled = DaysLater((WeekdayMap(c) - Weekday(clock)) % 7)
        /\ scheduled[1].day - clock.day \in 0..6
        /\ Weekday(scheduled[1]) = WeekdayMap(c)

\* 周一 asked on a Wednesday has been resolved to the Monday five days on.
C4_Witness ==
  /\ pc = "resolved"
  /\ parts = << <<"u5468", "u4E00">> >>
  /\ Weekday(clock) = 3
  /\ scheduled = DaysLater(5)

\* C5: N号 / N日 with N in 1..31 gives a date whose day of the month is N,
\* in the month of now when N is not before today, in the month after it
\* otherwise.
C5_DayOfMonth ==
  pc = "resolved" =>
    \A n \in 1..31 : \A c \in {"u53F7", "u65E5"} :
      parts = <<DayPhrase(n, c)>> =>
        /\ scheduled # Null
        /\ getDate(scheduled[1]) = n
        /\ 12 * getFullYear(scheduled[1]) + getMonth(scheduled[1])
             = 12 * getFullYear(clock) + getMonth(clock)
                 + (IF n < getDate(clock) THEN 1 ELSE 0)

\* C6: sanitizing a sanitized text changes nothing.
C6_Idempotent == pc = "restripped" => result2 = result

\* C7: a resolver phrase in front of a text free of temporal vocabulary is
\* removed in full: the result is the result for the text alone.
C7_PhraseRemoved ==
  pc = "stripped" =>
    \A p \in ResolverPhrases : \A x \in CleanTexts :
      parts = <<p, x>> => result = stripDateWords(x)

\* C8: every candidate of one call carries the same createdAt.
C8_OneAnchor ==
  pc = "derived" =>
    \A i, j \in 1..Len(newTasks) : newTasks[i].createdAt = newTasks[j].createdAt

\* An utterance holding 明天 has been derived into two or more candidates.
C8_Witness ==
  /\ pc = "derived"
  /\ HasCue({<<"u660E", "u5929">>})
  /\ Len(newTasks) >= 2

\* C9: the ids of one call are pairwise distinct, and each is made of
\* createdAt and the zero-based position of the candidate.
C9_Ids ==
  pc = "derived" =>
    /\ \A i, j \in 1..Len(newTasks) : i # j => newTasks[i].id # newTasks[j].id
    /\ \A i \in 1..Len(newTasks) : newTasks[i].id = <<newTasks[i].createdAt, i - 1>>

\* Three candidates have been returned by one call.
C9_Witness == pc = "derived" /\ Len(newTasks) = 3

\* C10: splitting gives the trimmed non-empty items in spoken order, and the
\* candidates come in the order of the items they are derived from.
C10_Order ==
  /\ pc \in {"input", "derived"} /\ sep > 0 => rawItemsOf(text) = SpokenItems
  /\ pc = "derived" /\ SpokenClean # << >> => TaskTexts = SpokenClean

\* 买菜 写周报 预约牙医 have been derived into those three texts, in that order.
C10_Witness ==
  /\ pc = "derived"
  /\ parts = << Filler, <<"u5199", "u5468", "u62A5">>,
                <<"u9884", "u7EA6", "u7259", "u533B">> >>
  /\ TaskTexts = parts


\* The label the four keyword families give a text, the first family with a
\* keyword occurring in the text winning: venture, then tech (its Latin
\* keywords in any case), then job, then life, else the default.
LabelByKeywords(content) ==
  IF Test(reRamen, content) THEN TagRamen
  ELSE IF Test(reWeb, toLowerCase(content)) THEN TagWeb
  ELSE IF Test(reWork, content) THEN TagWork
  ELSE IF Test(reLife, content) THEN TagLife
  ELSE TagWork

\* C11: classify returns the label of the first keyword family, in the order
\* venture, tech, job, life, that has a keyword occurring in the text, and
\* the default 本业工作 when none has.
C11_FirstMatchWins == pc = "classified" => label = LabelByKeywords(text)

\* The four canonical labels (the TaskTag type).
CanonicalLabels == {TagLife, TagWork, TagRamen, TagWeb}

\* C12: every candidate processTranscriptToTasks returns, from the item path
\* or from the fallback, carries one tag, and it is one of the four
\* canonical labels.
C12_CanonicalTag ==
  pc = "derived" =>
    \A k \in 1..Len(newTasks) :
      /\ "tag" \in DOMAIN newTasks[k]
      /\ newTasks[k].tag \in CanonicalLabels

\* Two items were derived into candidates of different labels, one of them
\* an item without any keyword.
C12_Witness ==
  /\ pc = "derived"
  /\ Len(newTasks) >= 2
  /\ \E j, k \in 1..Len(newTasks) :
       /\ newTasks[j].tag = TagLife
       /\ newTasks[k].tag = TagWork
       /\ ~Test(reWork, newTasks[k].text)

\* C13: when no spoken item is left after segmentation and sanitization,
\* processTranscriptToTasks returns exactly one candidate: a todo whose tag is
\* 本业工作 and whose text is the sanitized whole utterance, or the trimmed
\* raw utterance when sanitization leaves nothing of it.
C13_Fallback ==
  (pc = "derived" /\ SpokenClean = << >>) =>
    /\ Len(newTasks) = 1
    /\ newTasks[1].type = "todo"
    /\ newTasks[1].tag = TagWork
    /\ newTasks[1].text = IF stripDateWords(text) # << >>
                          THEN stripDateWords(text) ELSE Trim(text)

\* 明天 twice, a delimiter between: one candidate, its text that delimiter.
C13_Witness ==
  /\ pc = "derived"
  /\ parts = << <<"u660E", "u5929">>, <<"u660E", "u5929">> >>
  /\ Len(newTasks) = 1
  /\ newTasks[1].text = <<Delimiters[sep]>>
  /\ newTasks[1].tag = TagWork

\* C14: for every utterance with a character that is not whitespace, every
\* candidate processTranscriptToTasks returns has a text that is neither
\* empty nor whitespace only, from the item path and from the fallback.
C14_TextNonEmpty ==
  (pc = "derived" /\ \E i \in 1..Len(text) : text[i] \notin Whitespace) =>
    \A k \in 1..Len(newTasks) : Trim(newTasks[k].text) # << >>

\* The utterance 明天 is sanitized to nothing: its candidate keeps the raw
\* text.
C14_Witness ==
  /\ pc = "derived"
  /\ parts = << <<"u660E", "u5929">> >>
  /\ stripDateWords(text) = << >>
  /\ Len(newTasks) = 1
  /\ newTasks[1].text = <<"u660E", "u5929">>

\* C15: the time of day of every candidate's createdAt is the time of day
\* of a clock read of the call, whichever rule of the resolver matched.
C15_TimeOfDay ==
  pc = "derived" =>
    \A k \in 1..Len(newTasks) :
      \E r \in 1..Len(reads) :
        newTasks[k].createdAt.h = toISOString(reads[r], tzOffset).h

\* C16: what processTranscriptToTasks returns is what the utterance and the
\* clock at the call determine: the list derived with that one instant given
\* to the resolver and to the anchor alike.
C16_OneNow ==
  pc = "derived" =>
    newTasks = processTranscriptToTasks(text, reads[1], reads[1], tzOffset)

\* C20: when the utterance has a spoken item, processTranscriptToTasks
\* returns one candidate per spoken item, in order; the text of an item that
\* is sanitized to nothing is the trimmed raw item.
C20_OnePerItem ==
  (pc = "derived" /\ SpokenItems # << >>) =>
    /\ Len(newTasks) = Len(SpokenItems)
    /\ \A k \in 1..Len(newTasks) :
         newTasks[k].text = IF stripDateWords(SpokenItems[k]) # << >>
                            THEN stripDateWords(SpokenItems[k])
                            ELSE SpokenItems[k]

\* C18: from the four built-in labels, whatever labels are added, renamed
\* and deleted, the label set holds at least one label and at most twelve.
C18_LabelCount ==
  pc = "tags" => (Len(userTags) >= 1 /\ Len(userTags) <= MaxTags)

\* Eight labels were added to the four built-in ones: the set is full.
C18_Witness ==
  /\ pc = "tags"
  /\ Len(userTags) = MaxTags
  /\ tagClock = MaxTags - Len(DEFAULT_TAGS)

\* The todos under review whose tag the user has not picked.
UntouchedPending ==
  {Pending[k] : k \in {i \in 1..Len(Pending) :
                         Pending[i].type = "todo" /\ i \notin touched.pending}}

\* The saved todos whose tag the user has not picked.
UntouchedSaved ==
  {tasks[k] : k \in {i \in 1..Len(tasks) :
                       tasks[i].type = "todo" /\ i \notin touched.saved}}

\* C17 as claimed: whatever labels are added, renamed and deleted, the tag of
\* every todo candidate, and of every todo saved with its tag as derived, is
\* the label of an entry of the user's current label set.
C17_UserLabel ==
  pc = "app" =>
    \A t \in UntouchedPending \cup UntouchedSaved : HasLabel(userTags, t.tag)

\* C17 amended: whatever labels are added, renamed and deleted, the tag of
\* every todo candidate, and of every todo saved with its tag as derived, is
\* one of the four canonical labels, whether the user's current label set
\* has an entry of that label or not.
C17_CanonicalLabel ==
  pc = "app" =>
    \A t \in UntouchedPending \cup UntouchedSaved : t.tag \in CanonicalLabels

\* 生活/购物 is no label of the user's set any more, and a todo under review
\* carries it as derived.
C17_Witness ==
  /\ pc = "app"
  /\ ~HasLabel(userTags, TagLife)
  /\ \E t \in UntouchedPending : t.tag = TagLife

\* C19: whatever is clicked on the review sheet and confirmed, an idea,
\* under review or saved, has neither tag nor completed flag, and a saved
\* todo has a tag and completed = false.
C19_OnlyTodosTagged ==
  pc = "app" =>
    /\ \A k \in 1..Len(Pending) :
         Pending[k].type = "idea" =>
           DOMAIN Pending[k] \cap {"tag", "completed"} = {}
    /\ \A k \in 1..Len(tasks) :
         IF tasks[k].type = "idea"
         THEN DOMAIN tasks[k] \cap {"tag", "completed"} = {}
         ELSE /\ {"tag", "completed"} \subseteq DOMAIN tasks[k]
              /\ tasks[k].completed = FALSE

\* A batch was saved with an idea and a todo whose tag the user picked.
C19_Witness ==
  /\ pc = "app"
  /\ \E j, k \in 1..Len(tasks) :
       /\ tasks[j].type = "idea"
       /\ tasks[k].type = "todo"
       /\ k \in touched.saved

\* C24: for every text and every clock, when getScheduledDateFromText
\* returns a date, its calendar day is the day of now or a later one.
C24_NeverPast ==
  (pc = "resolved" /\ scheduled # Null) => scheduled[1].day >= clock.day

\* N号 with N below today's day of the month was resolved to a day of the
\* next month.
C24_Witness ==
  /\ pc = "resolved"
  /\ scheduled # Null
  /\ \E n \in 1..31 :
       /\ parts = <<DayPhrase(n, "u53F7")>>
       /\ n < getDate(clock)
  /\ scheduled[1].day > clock.day
  /\ getMonth(scheduled[1]) # getMonth(clock)

\* C21: whatever is recorded and confirmed, at whatever clock, the ids of
\* the saved tasks are pairwise distinct, and toggleTask(id) for the id of a
\* saved todo changes exactly one saved task.
C21_SavedIdsDistinct ==
  pc = "app" =>
    /\ \A j, k \in 1..Len(tasks) : tasks[j].id = tasks[k].id => j = k
    /\ \A j \in 1..Len(tasks) :
         tasks[j].type = "todo" =>
           Cardinality({k \in 1..Len(tasks) :
                          toggleTask(tasks, tasks[j].id)[k] # tasks[k]}) = 1

RECURSIVE DerivedUpTo(_)
\* The number of derivations the onend of the first n sessions have run.
DerivedUpTo(n) == IF n = 0 THEN 0 ELSE DerivedUpTo(n - 1) + sessions[n].derived

\* The number of derivations run so far.
Derivations == DerivedUpTo(Len(sessions))

\* C22: under every interleaving of pointer down and up and of the callbacks
\* onresult, onerror and onend of the recognition sessions, no derivation
\* runs while the review sheet holds a batch (only confirm and discard end
\* it), and every started recording runs at most one derivation.
C22_BatchNotReplaced ==
  [][ /\ ReviewOpen => Derivations' = Derivations
      /\ \A s \in 1..Len(sessions') : sessions'[s].derived <= 1 ]_vars


\* C23: after any sequence of add, rename and delete on the label set that
\* starts from the defaults, no two entries have the same display label and
\* no two entries have the same id.
C23_LabelsDistinct ==
  pc = "tags" =>
    \A j, k \in 1..Len(userTags) :
      (userTags[j].label = userTags[k].label \/ userTags[j].id = userTags[k].id)
        => j = k

====
